---- MODULE Spec2Model ----
(***************************************************************************)
(* mcp-toolbox: the sync pipeline (syncCommand / processServer), the       *)
(* snapshot store, the fingerprint, the diff engine and the code           *)
(* generator, modelled as a state machine over the output tree.            *)
(***************************************************************************)
EXTENDS Integers, Sequences, FiniteSets, TLC

(***************************************************************************)
(* Bounds                                                                  *)
(***************************************************************************)
NumServers == 2
\* runs of the command in one behaviour of the repeated-sync specification
MaxRuns == 3
\* injected I/O and network errors in one behaviour
MaxFaults == 2
\* upstream schema changes in one behaviour
MaxChanges == 1
\* closePool / closeAllPools / shutdown invocations of the runtime
MaxCloses == 1
\* callMcpTool invocations of the runtime
MaxCalls == 2
\* failures and timer expiries of the runtime: factory rejections, lost
\* connections, acquire timeouts, idle evictions
MaxEvents == 1
\* tools of a snapshot whose fingerprint is studied
MaxTools == 2

Servers == 1..NumServers
None == "none"
\* a path at which no file exists
NoFile == [missing |-> TRUE]

(***************************************************************************)
(* Tool definitions as the introspector returns them: name, description,   *)
(* inputSchema.  A name is a sequence of tokens (alphanumeric runs and the *)
(* separators between them); an inputSchema is an object given as the      *)
(* sequence of its <<key, value>> members in source order; the value of    *)
(* "properties" is itself an object, from property name to type.           *)
(***************************************************************************)
SchemaA == << <<"type", "object">>, <<"properties", << <<"id", "string">> >> >> >>
SchemaB == << <<"type", "object">>, <<"properties", << <<"id", "string">> >> >>,
              <<"required", "id">> >>

GetX == [name |-> <<"getX">>, description |-> "d1", inputSchema |-> SchemaA]
GetXReq == [name |-> <<"getX">>, description |-> "d1", inputSchema |-> SchemaB]
GetXDoc == [name |-> <<"getX">>, description |-> "d2", inputSchema |-> SchemaA]
ListY == [name |-> <<"listY">>, description |-> "d1", inputSchema |-> SchemaA]
CreateZ == [name |-> <<"createZ">>, description |-> None, inputSchema |-> SchemaA]

ListA == <<GetX, ListY>>
ListB == <<GetXReq, ListY, CreateZ>>
ListC == <<GetXDoc, ListY>>

\* the operation lists a service may expose
ToolLists == {ListA, ListB, ListC}

(***************************************************************************)
(* Helpers on sequences                                                    *)
(***************************************************************************)
Range(f) == {f[x] : x \in DOMAIN f}

RECURSIVE SeqSum(_)
SeqSum(q) == IF q = << >> THEN 0 ELSE Head(q) + SeqSum(Tail(q))

(***************************************************************************)
(* Fingerprint: stableStringify = JSON.stringify(normalizeForHash(v)),     *)
(* then sha256.  The digest is modelled as the canonical serialisation     *)
(* itself (an injective digest).                                           *)
(***************************************************************************)
\* object keys in lexicographic (Array.prototype.sort) order
KeyOrder == <<"description", "id", "inputSchema", "name", "properties",
              "required", "retrievedAt", "serverName", "timestamp", "tools",
              "type", "version">>

\* the keys whose value is an object (typeof value === "object")
ObjectKeys == {"properties"}

\* Object.keys(obj) has the key
hasKey(schema, k) == \E i \in 1..Len(schema) : schema[i][1] = k

\* the value of member k of an object, None when the object has no such key
member(schema, k) ==
  IF \E i \in 1..Len(schema) : schema[i][1] = k
    THEN schema[CHOOSE i \in 1..Len(schema) : schema[i][1] = k][2]
    ELSE None

\* members of an object, sorted by key, volatile keys dropped, every value
\* normalised in turn
RECURSIVE normalizeObject(_)
normalizeObject(members) ==
  LET kept == {members[i][1] : i \in 1..Len(members)} \ {"retrievedAt", "timestamp"}
      sorted == SelectSeq(KeyOrder, LAMBDA k : k \in kept)
  IN [p \in 1..Len(sorted) |->
        <<sorted[p],
          IF sorted[p] \in ObjectKeys
            THEN normalizeObject(member(members, sorted[p]))
            ELSE member(members, sorted[p])>>]

\* a tool as an object: JSON.stringify omits a member whose value is undefined
toolMembers(t) ==
  << <<"name", t.name>> >>
  \o (IF t.description = None THEN << >> ELSE << <<"description", t.description>> >>)
  \o << <<"inputSchema", normalizeObject(t.inputSchema)>> >>

normalizeForHash(v) ==
  normalizeObject(<< <<"serverName", v.serverName>>,
                     <<"version", v.version>>,
                     <<"tools", [i \in 1..Len(v.tools) |->
                                   normalizeObject(toolMembers(v.tools[i]))]>> >>)

stableStringify(schema) == normalizeObject(schema)

fingerprint(v) == normalizeForHash(v)

\* faulty variant: the retrieval time is hashed along with the tools
fingerprintFromToolsWithTime(snap) ==
  <<snap.retrievedAt,
    fingerprint([serverName |-> snap.serverName, version |-> snap.version,
                 tools |-> snap.tools])>>

fingerprintFromTools(snap) ==
  fingerprint([serverName |-> snap.serverName, version |-> snap.version,
               tools |-> snap.tools])

(***************************************************************************)
(* Diff engine                                                             *)
(***************************************************************************)
\* Map built by indexTools: keys in first-insertion order, last value wins
indexKeys(tools) ==
  LET firsts == {i \in 1..Len(tools) :
                   \A j \in 1..(i-1) : tools[j].name # tools[i].name}
      pos(i) == Cardinality({j \in firsts : j <= i})
  IN [p \in 1..Cardinality(firsts) |-> tools[CHOOSE i \in firsts : pos(i) = p].name]

\* a Map.has that finds nothing
indexHasNone(tools, n) == FALSE

indexHas(tools, n) == \E i \in 1..Len(tools) : tools[i].name = n

indexGet(tools, n) ==
  tools[CHOOSE i \in 1..Len(tools) :
          /\ tools[i].name = n
          /\ \A j \in (i+1)..Len(tools) : tools[j].name # n]

descOrEmpty(t) == IF t.description = None THEN "" ELSE t.description

RECURSIVE removedChanges(_, _)
removedChanges(keys, newTools) ==
  IF keys = << >> THEN << >>
  ELSE (IF indexHas(newTools, Head(keys)) THEN << >>
        ELSE << [kind |-> "tool_removed", toolName |-> Head(keys)] >>)
       \o removedChanges(Tail(keys), newTools)

RECURSIVE addedChanges(_, _)
addedChanges(keys, oldTools) ==
  IF keys = << >> THEN << >>
  ELSE (IF indexHas(oldTools, Head(keys)) THEN << >>
        ELSE << [kind |-> "tool_added", toolName |-> Head(keys)] >>)
       \o addedChanges(Tail(keys), oldTools)

schemaDiffers(oldTool, newTool) ==
  stableStringify(oldTool.inputSchema) # stableStringify(newTool.inputSchema)

RECURSIVE commonChanges(_, _, _)
commonChanges(keys, oldTools, newTools) ==
  IF keys = << >> THEN << >>
  ELSE (IF ~indexHas(newTools, Head(keys)) THEN << >>
        ELSE LET o == indexGet(oldTools, Head(keys))
                 n == indexGet(newTools, Head(keys))
             IN (IF descOrEmpty(o) # descOrEmpty(n)
                   THEN << [kind |-> "tool_description_changed", toolName |-> Head(keys)] >>
                   ELSE << >>)
                \o (IF schemaDiffers(o, n)
                   THEN << [kind |-> "tool_changed", toolName |-> Head(keys),
                            fields |-> <<"inputSchema">>] >>
                   ELSE << >>))
       \o commonChanges(Tail(keys), oldTools, newTools)

\* a diff that also flags an added tool as breaking
diffSnapshotsBreakOnAdd(oldSnap, newSnap) ==
  [breaking |->
     \/ \E k \in 1..Len(oldSnap.tools) :
          ~indexHas(newSnap.tools, oldSnap.tools[k].name)
     \/ \E k \in 1..Len(newSnap.tools) :
          ~indexHas(oldSnap.tools, newSnap.tools[k].name),
   changes |-> removedChanges(indexKeys(oldSnap.tools), newSnap.tools)
               \o addedChanges(indexKeys(newSnap.tools), oldSnap.tools)
               \o commonChanges(indexKeys(oldSnap.tools), oldSnap.tools,
                                newSnap.tools)]

diffSnapshots(oldSnap, newSnap) ==
  LET oldKeys == indexKeys(oldSnap.tools)
      newKeys == indexKeys(newSnap.tools)
  IN [breaking |->
        \/ \E i \in 1..Len(oldKeys) : ~indexHas(newSnap.tools, oldKeys[i])
        \/ \E i \in 1..Len(oldKeys) :
             /\ indexHas(newSnap.tools, oldKeys[i])
             /\ schemaDiffers(indexGet(oldSnap.tools, oldKeys[i]),
                              indexGet(newSnap.tools, oldKeys[i])),
      changes |-> removedChanges(oldKeys, newSnap.tools)
                  \o addedChanges(newKeys, oldSnap.tools)
                  \o commonChanges(oldKeys, oldSnap.tools, newSnap.tools)]

(***************************************************************************)
(* Code generator                                                          *)
(***************************************************************************)
Separators == {"-", "_"}

\* String.prototype.toLowerCase on the characters and the alphanumeric runs
\* of the model
Lower(w) ==
  CASE w = "getX" -> "getx"
    [] w = "listY" -> "listy"
    [] w = "createZ" -> "createz"
    [] w = "A" -> "a"
    [] OTHER -> w

\* String.prototype.toUpperCase on a character
Upper(w) ==
  CASE w = "a" -> "A"
    [] OTHER -> w

\* the identifier as the sequence of its characters: the name is split at
\* the separators, the first part is emitted in lower case, of every later
\* part the first character in upper case and the rest in lower case
toCamelCase(name) ==
  LET idx == {i \in 1..Len(name) : name[i] \notin Separators}
      starts == {i \in idx : i = 1 \/ name[i - 1] \in Separators}
      part(i) == Cardinality({j \in starts : j <= i})
      pos(i) == Cardinality({j \in idx : j <= i})
      char(i) == IF part(i) > 1 /\ i \in starts THEN Upper(name[i])
                 ELSE Lower(name[i])
      parts == [p \in 1..Cardinality(idx) |-> char(CHOOSE i \in idx : pos(i) = p)]
  IN IF parts = << >> THEN <<"t", "o", "o", "l">> ELSE parts

jsonSchemaToTsInterface(schema) ==
  IF member(schema, "type") = "object" \/ hasKey(schema, "properties")
    THEN [kind |-> "interface", props |-> member(schema, "properties"),
          required |-> member(schema, "required")]
    ELSE [kind |-> "type", props |-> member(schema, "type"), required |-> None]

\* a generator that hands out the base identifier every time
fnNameAtBase(tools, i) == <<toCamelCase(tools[i].name), 1>>

\* fnName of the i-th tool: <<base, k>>, k = 1 for the bare base identifier
\* and k >= 2 for the suffix __k
fnNameAt(tools, i) ==
  LET baseFn == toCamelCase(tools[i].name)
      n == Cardinality({j \in 1..(i-1) : toCamelCase(tools[j].name) = baseFn})
  IN <<baseFn, n + 1>>

toolFileAt(serverName, tools, i) ==
  [file |-> fnNameAt(tools, i),
   content |-> [input |-> jsonSchemaToTsInterface(tools[i].inputSchema),
                doc |-> IF tools[i].description \in {None, ""} THEN None
                        ELSE tools[i].description,
                server |-> serverName,
                tool |-> tools[i].name]]

\* the files of a tools directory after the first k tools were written over it
writeToolFiles(dir, serverName, tools, k) ==
  LET written == {toolFileAt(serverName, tools, i) : i \in 1..k}
      names == {w.file : w \in written}
      \* a later write to the same path replaces an earlier one
      last == {toolFileAt(serverName, tools, i) : i \in
                 {i \in 1..k : \A j \in (i+1)..k :
                    fnNameAt(tools, j) # fnNameAt(tools, i)}}
  IN {f \in dir : f.file \notin names} \cup last

indexExports(tools) == [i \in 1..Len(tools) |-> fnNameAt(tools, i)]

(***************************************************************************)
(* Configuration and environment                                           *)
(***************************************************************************)
\* transport.auth of each configured server: even-numbered servers use a
\* bearer token read from their own environment variable
authConfig(s) ==
  IF s % 2 = 0 THEN [type |-> "bearer", tokenEnv |-> s] ELSE [type |-> "none"]

BearerServers == {s \in Servers : authConfig(s).type = "bearer"}

\* process environments: the token variables holding a non-blank value and
\* whether a CI marker (CI, GITHUB_ACTIONS, ACT) is set
Environments == [tokens : SUBSET BearerServers, CI : BOOLEAN]

\* resolveAuth: none | resolved | missing(envVar)
resolveAuth(auth, e) ==
  IF auth.type # "bearer" THEN [status |-> "none"]
  ELSE IF auth.tokenEnv \in e.tokens THEN [status |-> "resolved", token |-> auth.tokenEnv]
  ELSE [status |-> "missing", envVar |-> auth.tokenEnv]

\* isAuthError on the errors the model raises
isAuthError(err) == err = "auth"

(***************************************************************************)
(* State                                                                   *)
(***************************************************************************)
VARIABLES
  upstream,    \* the operation list each service currently exposes
  fs,          \* the output tree (snapshots, reports, generated code, catalog)
  pc,          \* position of the sync command: idle, loop, confirm, finalize, done
  opts,        \* command-line options and CI detection of the current run
  env,         \* process environment: token variables set, CI marker
  selected,    \* serversToSync
  i,           \* loop index into selected
  results,     \* SyncResults
  detected,    \* servers whose processServer result carried a breakingChange
  exitCode,    \* process.exitCode
  asked,       \* number of confirm() prompts issued in the current run
  answer,      \* the answer to the prompt, None before
  finalized,   \* finalizeSyncOutput was called in the current run
  summary,     \* the parts of the text passed to p.stop
  caught,      \* the error the handler's outer catch block logged, None before
  transports,  \* servers for which a transport was constructed in this run
  connects,    \* servers for which client.connect was called in this run
  now,         \* clock: one tick per run
  fsAtStart,   \* the output tree when the current run started
  stable,      \* consecutive fully successful syncs with no upstream change
  lastGen,     \* generated artifacts left by the last fully successful sync
  faults,      \* errors injected so far
  changes      \* upstream changes so far

vars == <<upstream, fs, pc, opts, env, selected, i, results, detected, exitCode,
          asked, answer, finalized, summary, caught, transports, connects,
          now, fsAtStart, stable, lastGen, faults, changes>>

\* state of the runtime's connection pools (packages/mcp-toolbox-runtime)
VARIABLES
  pools,       \* the module-level Map: service name -> pool object, 0 if absent
  poolObjs,    \* every pool object created so far, by identity
  conns,       \* every PooledClient the factory returned so far
  calls,       \* the callMcpTool invocations
  closes,      \* the closePool / closeAllPools / shutdown invocations
  exited,      \* process.exit was called
  events,      \* failed creations, lost connections and timer expiries so far
  started      \* callMcpTool and close invocations made so far

poolVars == <<pools, poolObjs, conns, calls, closes, exited, events, started>>

\* the arguments a function under study is applied to, and its result
VARIABLES input, output

pureVars == <<input, output>>

\* variables of the specifications other than the sync command's
auxVars == <<poolVars, pureVars>>

EmptyFs ==
  [latestJson |-> [s \in Servers |-> NoFile],
   latestMeta |-> [s \in Servers |-> NoFile],
   history |-> [s \in Servers |-> {}],
   reports |-> [s \in Servers |-> {}],
   toolFiles |-> [s \in Servers |-> {}],
   indexTs |-> [s \in Servers |-> NoFile],
   catalog |-> NoFile,
   readme |-> FALSE,
   scripts |-> FALSE]

createSyncResults ==
  [successful |-> << >>, failed |-> << >>, skipped |-> << >>,
   breakingChanges |-> << >>, catalogEntries |-> << >>, anyOutOfSync |-> FALSE]

NoOpts == [yes |-> FALSE, check |-> FALSE, server |-> << >>,
           skipMissingAuth |-> FALSE, isCI |-> FALSE]

\* the generated artifacts of the tree, the catalog without its generatedAt
generated(tree) ==
  [toolFiles |-> tree.toolFiles, indexTs |-> tree.indexTs,
   catalog |-> IF tree.catalog = NoFile THEN NoFile ELSE tree.catalog.servers]

(***************************************************************************)
(* Per-server pipeline                                                     *)
(***************************************************************************)
\* where an attempt may throw: creating the transport, connecting, listing
\* (plain or with an authentication error), writing the report, between the
\* writes of writeLatestSnapshot (after latest.json), and in the code
\* generator (after the tool files, before index.ts)
IntrospectFaults == {"transport", "connect", "list", "auth"}
WriteFaults == {"report", "snap_history", "gen_index"}
Faults == {"ok"} \cup IntrospectFaults \cup WriteFaults

introspectServer(s, tools, t) ==
  [serverName |-> s, version |-> "latest", retrievedAt |-> t,
   tools |-> [k \in 1..Len(tools) |->
                [name |-> tools[k].name, description |-> tools[k].description,
                 inputSchema |-> tools[k].inputSchema]]]

renderDiffReport(s, oldSnap, newSnap, diff, t) ==
  [at |-> t, server |-> s, from |-> oldSnap.version, to |-> newSnap.version,
   breaking |-> diff.breaking, changes |-> diff.changes]

\* the three writes of writeLatestSnapshot, cut short after `upto` of them
writeLatestSnapshot(tree, s, snap, upto) ==
  LET meta == [retrievedAt |-> snap.retrievedAt,
               serverReportedVersion |-> snap.version,
               schemaFingerprint |-> fingerprint([serverName |-> snap.serverName,
                                                  version |-> snap.version,
                                                  tools |-> snap.tools])]
      t1 == IF upto >= 1 THEN [tree EXCEPT !.latestJson[s] = snap] ELSE tree
      t2 == IF upto >= 2 THEN [t1 EXCEPT !.history[s] = @ \cup {snap}] ELSE t1
  IN IF upto >= 3 THEN [t2 EXCEPT !.latestMeta[s] = meta] ELSE t2

\* generateServerTs, cut short after k tool files when withIndex is FALSE
generateServerTs(tree, s, snap, k, withIndex) ==
  LET t1 == [tree EXCEPT !.toolFiles[s] = writeToolFiles(@, s, snap.tools, k)]
  IN IF withIndex THEN [t1 EXCEPT !.indexTs[s] = [exports |-> indexExports(snap.tools)]] ELSE t1

Failed(tree, err) == [status |-> "error", fs |-> tree, error |-> err]

\* faulty variant: a service without committed metadata counts as in sync
changedSinceMissingInSync(oldMeta, newFingerprintCandidate) ==
  oldMeta # NoFile /\ oldMeta.schemaFingerprint # newFingerprintCandidate

\* the fingerprint comparison of processServer: a service without committed
\* metadata counts as changed
changedSince(oldMeta, newFingerprintCandidate) ==
  IF oldMeta # NoFile
    THEN oldMeta.schemaFingerprint # newFingerprintCandidate
    ELSE TRUE

\* the sync path of processServer: diff and report, snapshot, generated code
commitServer(tree, s, oldSnap, newSnap, fault) ==
  LET diff == IF oldSnap # NoFile THEN diffSnapshots(oldSnap, newSnap)
              ELSE [breaking |-> FALSE, changes |-> << >>]
      hasReport == oldSnap # NoFile /\ diff.changes # << >>
      t1 == IF hasReport
              THEN [tree EXCEPT !.reports[s] =
                      @ \cup {renderDiffReport(s, oldSnap, newSnap, diff,
                                               newSnap.retrievedAt)}]
              ELSE tree
      t2 == writeLatestSnapshot(t1, s, newSnap, 3)
      t3 == generateServerTs(t2, s, newSnap, Len(newSnap.tools), TRUE)
  IN IF fault = "report" /\ hasReport THEN Failed(tree, fault)
     ELSE IF fault = "snap_history" THEN Failed(writeLatestSnapshot(t1, s, newSnap, 1), fault)
     ELSE IF fault = "gen_index"
       THEN Failed(generateServerTs(t2, s, newSnap, Len(newSnap.tools), FALSE), fault)
     ELSE [status |-> "success", fs |-> t3, serverName |-> s,
           toolsCount |-> Len(newSnap.tools), snapshot |-> newSnap,
           breakingChange |-> hasReport /\ diff.breaking]

\* faulty variant: no early return in check mode
processServerNoCheckReturn(tree, s, tools, checkOnly, fault, t) ==
  IF fault \in IntrospectFaults THEN Failed(tree, fault)
  ELSE commitServer(tree, s, tree.latestJson[s], introspectServer(s, tools, t), fault)

processServer(tree, s, tools, checkOnly, fault, t) ==
  LET oldSnap == tree.latestJson[s]
      oldMeta == tree.latestMeta[s]
      newSnap == introspectServer(s, tools, t)
      newFingerprintCandidate == fingerprintFromTools(newSnap)
      changed == changedSince(oldMeta, newFingerprintCandidate)
  IN IF fault \in IntrospectFaults THEN Failed(tree, fault)
     ELSE IF checkOnly THEN [status |-> "checked", fs |-> tree, changed |-> changed]
     ELSE commitServer(tree, s, oldSnap, newSnap, fault)

(***************************************************************************)
(* Reporting and finalisation                                              *)
(***************************************************************************)
formatSyncSummary(res, checkOnly) ==
  IF checkOnly
    THEN << [part |-> IF res.anyOutOfSync THEN "Out of sync" ELSE "Up to date"] >>
    ELSE (IF Len(res.successful) > 0
            THEN << [part |-> "Synced", count |-> Len(res.successful),
                     tools |-> SeqSum([k \in 1..Len(res.successful) |->
                                         res.successful[k].toolsCount])] >>
            ELSE << >>)
         \o (IF Len(res.skipped) > 0
            THEN << [part |-> "skipped", count |-> Len(res.skipped)] >> ELSE << >>)
         \o (IF Len(res.failed) > 0
            THEN << [part |-> "failed", count |-> Len(res.failed)] >> ELSE << >>)

\* log.warn / log.error lines printed after the loop of a sync run
detailLines(res) ==
  {[level |-> "warn", server |-> res.skipped[k].serverName,
    text |-> res.skipped[k].reason] : k \in 1..Len(res.skipped)}
  \cup {[level |-> "error", server |-> res.failed[k].serverName,
         text |-> res.failed[k].error] : k \in 1..Len(res.failed)}

writeCatalog(tree, entries, t) ==
  [tree EXCEPT !.catalog =
     [generatedAt |-> t,
      servers |-> [k \in 1..Len(entries) |->
                     [serverSlug |-> entries[k].serverSlug,
                      serverName |-> entries[k].serverName,
                      version |-> entries[k].snapshot.version,
                      tools |-> [j \in 1..Len(entries[k].snapshot.tools) |->
                                   [name |-> entries[k].snapshot.tools[j].name,
                                    description |->
                                      entries[k].snapshot.tools[j].description]]]]]]

FinalizeFaults == {"ok", "catalog", "format"}

\* writeCatalog, writeToolboxReadme, writeScriptsFolder, then the formatter;
\* the first step that throws ends the sequence: the catalog write, or the
\* formatter once everything is written
finalizeSyncOutput(tree, entries, t, fault) ==
  IF fault = "catalog" THEN tree
  ELSE [writeCatalog(tree, entries, t) EXCEPT !.readme = TRUE, !.scripts = TRUE]

\* verifyGeneratedCode: throws unless the catalog, the README and, for every
\* configured server, its index.ts and latest.json exist
verifyGeneratedCode(tree) ==
  \/ NumServers = 0
  \/ /\ tree.catalog # NoFile
     /\ tree.readme
     /\ \A s \in Servers : tree.indexTs[s] # NoFile /\ tree.latestJson[s] # NoFile

\* the tree left by a clean sync, at time t, of servers k..NumServers
RECURSIVE syncedFrom(_, _, _, _)
syncedFrom(tree, k, tools, t) ==
  IF k > NumServers THEN tree
  ELSE syncedFrom(processServer(tree, k, tools, FALSE, "ok", t).fs, k + 1, tools, t)

\* the whole tree after a clean `sync --yes` of every server exposing tools
SyncedFs(tools, t) ==
  finalizeSyncOutput(syncedFrom(EmptyFs, 1, tools, t),
                     [k \in 1..NumServers |->
                        [serverSlug |-> k, serverName |-> k,
                         snapshot |-> introspectServer(k, tools, t)]],
                     t, "ok")

(***************************************************************************)
(* Runtime connection pool.  getOrCreatePool keeps one generic-pool per    *)
(* service name, created with max 1, min 0, testOnBorrow, an acquire       *)
(* timeout and an idle evictor.  The pool object is generic-pool's Pool:   *)
(* its steps (acquire, dispense, release, evict, drain, clear) follow that *)
(* library under these options; factory, validate and destroy are the      *)
(* callbacks the repository passes to it.                                  *)
(***************************************************************************)
\* two service names: pools of different names share nothing but the map
PoolNames == {"alpha", "beta"}
\* two invocations of callMcpTool in flight at a time, MaxCalls in all
Callers == {1, 2}
\* two invocations of closePool / closeAllPools in flight, MaxCloses in all
Closers == {1, 2}

\* options of createPool
PoolMax == 1

\* a pool as createPool returns it: started, evictor scheduled, nothing
\* created, no destroy callback pending
createPool(serverName) ==
  [name |-> serverName, draining |-> FALSE, waiting |-> << >>,
   creating |-> FALSE, resource |-> 0, loan |-> FALSE, evictor |-> TRUE,
   destroying |-> 0]

\* what the factory of callMcpTool resolves to: { client, transport }
PooledClient(serverName) ==
  [name |-> serverName, client |-> "client", transport |-> "transport",
   open |-> TRUE, stale |-> FALSE]

\* the validate callback: both handles are present
validate(resource) == resource.transport # None /\ resource.client # None

\* a connection whose transport.close() was invoked, and a pool that was
\* drained and cleared: nothing refers to their contents any more, and their
\* places in conns and poolObjs are taken by the next ones created
ClosedClient == [name |-> None, client |-> "client", transport |-> "transport",
                 open |-> FALSE, stale |-> FALSE]
ClearedPool == [createPool(None) EXCEPT !.draining = TRUE, !.evictor = FALSE]

\* the first free place of a sequence, and the sequence with x put at place k
place(q, free) == IF free = {} THEN Len(q) + 1
                  ELSE CHOOSE k \in free : \A j \in free : k <= j
put(q, k, x) == IF k > Len(q) THEN Append(q, x) ELSE [q EXCEPT ![k] = x]

\* a destroy that never closes the transport
destroyNothing(cs, id) == cs

\* the destroy callback: transport.close() is invoked, its error is ignored
destroy(cs, id) == [cs EXCEPT ![id] = ClosedClient]

\* a callMcpTool invocation: its position, the pool it was given, the
\* connection it was handed and whether that connection was stale then; what
\* it found when it was queued: no resource in the pool or on its way
\* (fresh), the connection the pool held then or, with none, the first one
\* created since (expect, 0 if none yet); and the factory's calls (runs) and
\* rejections (failed) since it was queued
IdleCall == [pc |-> "idle", name |-> None, pool |-> 0, conn |-> 0,
             stale |-> FALSE, expect |-> 0, fresh |-> FALSE, runs |-> 0,
             failed |-> 0]

\* a closePool / closeAllPools invocation, of the shutdown handler or not:
\* per name, the pool it read from the map and its position in closePool
IdleClose == [kind |-> "none", at |-> [s \in PoolNames |-> "none"],
              pool |-> [s \in PoolNames |-> 0]]

PoolIdle ==
  /\ pools = [s \in PoolNames |-> 0]
  /\ poolObjs = << >>
  /\ conns = << >>
  /\ calls = [c \in Callers |-> IdleCall]
  /\ closes = [k \in Closers |-> IdleClose]
  /\ exited = FALSE
  /\ events = 0
  /\ started = [calls |-> 0, closes |-> 0]

\* no function under study has been applied
PureIdle ==
  /\ input = [kind |-> "none"]
  /\ output = [done |-> FALSE]

AuxIdle == PoolIdle /\ PureIdle

RunIdle ==
  /\ pc = "idle"
  /\ opts = NoOpts
  /\ env \in Environments
  /\ selected = << >>
  /\ i = 1
  /\ results = createSyncResults
  /\ detected = {}
  /\ exitCode = 0
  /\ asked = 0
  /\ answer = None
  /\ finalized = FALSE
  /\ summary = << >>
  /\ caught = None
  /\ transports = {}
  /\ connects = {}
  /\ now = 0
  /\ fsAtStart = fs

\* a fresh checkout, or one whose servers were all synchronised before
Init ==
  /\ upstream = [s \in Servers |-> ListA]
  /\ \/ fs = EmptyFs /\ stable = 0
     \/ fs = SyncedFs(ListA, 0) /\ stable = 1
  /\ lastGen = generated(fs)
  /\ RunIdle
  /\ faults = 0
  /\ changes = 0
  /\ AuxIdle

\* repeated runs against services that never change and never fail
InitRepeat ==
  /\ \E tl \in ToolLists : upstream = [s \in Servers |-> tl]
  /\ fs = EmptyFs
  /\ stable = 0
  /\ lastGen = generated(fs)
  /\ RunIdle
  /\ faults = MaxFaults
  /\ changes = MaxChanges
  /\ AuxIdle

(***************************************************************************)
(* The sync command                                                        *)
(***************************************************************************)
\* --server values: absent, a configured name, or a name not in the config
UnknownServer == NumServers + 1
ServerFilters == {<< >>} \cup {<<n>> : n \in Servers \cup {UnknownServer}}

serversToSync(filter) ==
  IF filter = << >> THEN [k \in 1..NumServers |-> k]
  ELSE IF filter[1] \in Servers THEN filter ELSE << >>

\* faulty variant: the CI marker does not enable skipping
shouldSkipOnlyFlag == opts.skipMissingAuth

shouldSkipMissingAuth == opts.skipMissingAuth \/ opts.isCI

\* the loop's three ways of recording an outcome in the SyncResults
recordSkipped(res, s, envVar) ==
  [res EXCEPT !.skipped =
     Append(@, [serverName |-> s, reason |-> <<"Missing auth token", envVar>>])]

recordSuccess(res, r, interactive) ==
  [res EXCEPT
     !.breakingChanges =
        IF r.breakingChange /\ interactive
          THEN Append(@, [serverName |-> r.serverName,
                          oldVersion |-> "latest", newVersion |-> "latest"])
          ELSE @,
     !.catalogEntries =
        Append(@, [serverSlug |-> r.serverName, serverName |-> r.serverName,
                   snapshot |-> r.snapshot]),
     !.successful =
        Append(@, [serverName |-> r.serverName, toolsCount |-> r.toolsCount])]

\* faulty variant: the catch block swallows the error and records nothing
recordFailureDropped(res, s, err) == res

recordFailure(res, s, err) ==
  [res EXCEPT !.failed =
     Append(@, [serverName |-> s,
                error |-> IF isAuthError(err)
                            THEN <<"Authentication failed", err>>
                            ELSE <<err>>])]

\* faulty variant: the handler never prompts
needsConfirmationNever(res, interactive) == FALSE

\* the condition under which the handler prompts after the loop
needsConfirmation(res, interactive) ==
  interactive /\ Len(res.breakingChanges) > 0

\* faulty variant: any failed service makes the run fail
exitAfterSyncAnyFailed(res, code) ==
  IF Len(res.failed) > 0 THEN 1 ELSE code

\* exit code rule applied once the loop and the confirmation are over
exitAfterSync(res, code) ==
  IF Len(res.failed) > 0 /\ Len(res.successful) = 0 THEN 1 ELSE code

\* a service that has not changed since the last synchronisation changes
\* the operations it exposes, before the run
UpstreamChange ==
  /\ pc = "idle"
  /\ changes < MaxChanges
  /\ \E s \in Servers, tl \in ToolLists :
       /\ upstream[s] = ListA
       /\ upstream[s] # tl
       /\ upstream' = [upstream EXCEPT ![s] = tl]
  /\ stable' = 0
  /\ changes' = changes + 1
  /\ UNCHANGED <<fs, pc, opts, env, selected, i, results, detected, exitCode,
                 asked, answer, finalized, summary, caught, transports,
                 connects, now, fsAtStart, lastGen, faults>>
  /\ UNCHANGED auxVars

\* the action handler up to the loop: options, CI detection, verification in
\* CI check mode, server filter
StartRun ==
  /\ pc = "idle"
  /\ now < MaxRuns
  /\ \E yes \in BOOLEAN, check \in BOOLEAN, filter \in ServerFilters,
        skip \in BOOLEAN :
       /\ opts' = [yes |-> yes, check |-> check, server |-> filter,
                   skipMissingAuth |-> skip, isCI |-> env.CI]
       /\ IF env.CI /\ check
            THEN /\ selected' = << >>
                 /\ pc' = "done"
                 /\ exitCode' = IF verifyGeneratedCode(fs) THEN 0 ELSE 1
                 /\ caught' = IF verifyGeneratedCode(fs) THEN None ELSE "verify"
            ELSE IF filter # << >> /\ serversToSync(filter) = << >>
            THEN /\ selected' = << >>
                 /\ pc' = "done"
                 /\ exitCode' = 1
                 /\ caught' = None
            ELSE /\ selected' = serversToSync(filter)
                 /\ pc' = "loop"
                 /\ exitCode' = 0
                 /\ caught' = None
  /\ i' = 1
  /\ results' = createSyncResults
  /\ detected' = {}
  /\ asked' = 0
  /\ answer' = None
  /\ finalized' = FALSE
  /\ summary' = << >>
  /\ transports' = {}
  /\ connects' = {}
  /\ now' = now + 1
  /\ fsAtStart' = fs
  /\ UNCHANGED <<upstream, fs, env, stable, lastGen, faults, changes>>
  /\ UNCHANGED auxVars

\* one iteration of the loop in which the credential is missing and skipped
SkipServer ==
  /\ pc = "loop"
  /\ i <= Len(selected)
  /\ LET s == selected[i]
         authResult == resolveAuth(authConfig(s), env)
     IN /\ authResult.status = "missing"
        /\ shouldSkipMissingAuth
        /\ results' = recordSkipped(results, s, authResult.envVar)
  /\ i' = i + 1
  /\ UNCHANGED <<upstream, fs, pc, opts, env, selected, detected, exitCode,
                 asked, answer, finalized, summary, caught, transports,
                 connects, now, fsAtStart, stable, lastGen, faults, changes>>
  /\ UNCHANGED auxVars

\* one iteration of the loop that calls processServer inside try/catch
ProcessServer ==
  /\ pc = "loop"
  /\ i <= Len(selected)
  /\ LET s == selected[i]
         authResult == resolveAuth(authConfig(s), env)
     IN /\ ~(authResult.status = "missing" /\ shouldSkipMissingAuth)
        /\ \E fault \in Faults :
             /\ fault # "ok" => faults < MaxFaults
             /\ \E r \in {processServer(fs, s, upstream[s], opts.check, fault, now)} :
                /\ fault # "ok" => r.status = "error"
                /\ faults' = IF fault = "ok" THEN faults ELSE faults + 1
                /\ fs' = r.fs
                /\ transports' = IF fault = "transport" THEN transports
                                 ELSE transports \cup {s}
                /\ connects' = IF fault = "transport" THEN connects
                               ELSE connects \cup {s}
                /\ IF r.status = "checked"
                     THEN /\ results' = [results EXCEPT !.anyOutOfSync = @ \/ r.changed]
                          /\ UNCHANGED detected
                   ELSE IF r.status = "success"
                     THEN /\ results' = recordSuccess(results, r, ~opts.yes)
                          /\ detected' = IF r.breakingChange THEN detected \cup {s}
                                         ELSE detected
                   ELSE /\ results' = recordFailure(results, s, r.error)
                        /\ UNCHANGED detected
  /\ i' = i + 1
  /\ UNCHANGED <<upstream, pc, opts, env, selected, exitCode, asked, answer,
                 finalized, summary, caught, now, fsAtStart, stable, lastGen,
                 changes>>
  /\ UNCHANGED auxVars

\* after the loop: summary, detail lines, then the confirmation prompt, the
\* exit-code rule, or the check-mode verdict
AfterLoop ==
  /\ pc = "loop"
  /\ i > Len(selected)
  /\ summary' = IF Len(selected) > 0 THEN formatSyncSummary(results, opts.check)
                ELSE << >>
  /\ IF opts.check
       THEN /\ exitCode' = IF results.anyOutOfSync THEN 1 ELSE exitCode
            /\ pc' = "done"
            /\ UNCHANGED asked
       ELSE IF needsConfirmation(results, ~opts.yes)
       THEN /\ asked' = asked + 1
            /\ pc' = "confirm"
            /\ UNCHANGED exitCode
       ELSE /\ exitCode' = exitAfterSync(results, exitCode)
            /\ pc' = "finalize"
            /\ UNCHANGED asked
  /\ UNCHANGED <<upstream, fs, opts, env, selected, i, results, detected,
                 answer, finalized, caught, transports, connects, now,
                 fsAtStart, stable, lastGen, faults, changes>>
  /\ UNCHANGED auxVars

\* the human answers the prompt; a cancel counts as a refusal
Confirm ==
  /\ pc = "confirm"
  /\ \E ok \in BOOLEAN :
       /\ answer' = IF ok THEN "yes" ELSE "no"
       /\ IF ok
            THEN /\ exitCode' = exitAfterSync(results, exitCode)
                 /\ pc' = "finalize"
                 /\ caught' = None
            ELSE /\ exitCode' = 1
                 /\ pc' = "done"
                 /\ caught' = "Aborted by user."
  /\ UNCHANGED <<upstream, fs, opts, env, selected, i, results, detected,
                 asked, finalized, summary, transports, connects, now,
                 fsAtStart, stable, lastGen, faults, changes>>
  /\ UNCHANGED auxVars

Finalize ==
  /\ pc = "finalize"
  /\ \E fault \in FinalizeFaults :
       /\ fault # "ok" => faults < MaxFaults
       /\ faults' = IF fault = "ok" THEN faults ELSE faults + 1
       /\ fs' = finalizeSyncOutput(fs, results.catalogEntries, now, fault)
       /\ exitCode' = IF fault = "ok" THEN exitCode ELSE 1
       /\ caught' = IF fault = "ok" THEN None ELSE fault
  /\ finalized' = TRUE
  /\ pc' = "done"
  /\ UNCHANGED <<upstream, opts, env, selected, i, results, detected, asked,
                 answer, summary, transports, connects, now, fsAtStart,
                 stable, lastGen, changes>>
  /\ UNCHANGED auxVars

\* every configured server was synchronised and the run ended with code 0
fullSync ==
  /\ ~opts.check
  /\ exitCode = 0
  /\ Len(results.successful) = NumServers

\* the process exits; nothing of the run but the output tree survives it
Exit ==
  /\ pc = "done"
  /\ pc' = "idle"
  /\ opts' = NoOpts
  /\ selected' = << >>
  /\ i' = 1
  /\ results' = createSyncResults
  /\ detected' = {}
  /\ exitCode' = 0
  /\ asked' = 0
  /\ answer' = None
  /\ finalized' = FALSE
  /\ summary' = << >>
  /\ caught' = None
  /\ transports' = {}
  /\ connects' = {}
  /\ fsAtStart' = fs
  /\ IF fullSync
       THEN /\ stable' = IF stable < 2 THEN stable + 1 ELSE stable
            /\ lastGen' = generated(fs)
       ELSE IF fs = fsAtStart
       THEN UNCHANGED <<stable, lastGen>>
       ELSE /\ stable' = 0
            /\ UNCHANGED lastGen
  /\ UNCHANGED <<upstream, fs, env, now, faults, changes>>
  /\ UNCHANGED auxVars

\* one run of the command, after the services changed upstream
Next ==
  \/ UpstreamChange
  \/ StartRun
  \/ SkipServer
  \/ ProcessServer
  \/ AfterLoop
  \/ Confirm
  \/ Finalize

Spec == Init /\ [][Next]_vars

\* run after run of the command against services that do not change

NextRepeat ==
  \/ StartRun
  \/ SkipServer
  \/ ProcessServer
  \/ AfterLoop
  \/ Finalize
  \/ Exit

SpecRepeat == InitRepeat /\ [][NextRepeat]_vars

(***************************************************************************)
(* The runtime: callMcpTool, the pool's steps, closePool and shutdown.     *)
(* An action is one turn of the event loop: the callback of a timer, a     *)
(* signal or a completed input or output, with every continuation that its *)
(* settled promises release.                                               *)
(***************************************************************************)
\* Pool._dispense: with a waiting request, start one creation if the
\* capacity allows it, else test an available resource on borrow and hand
\* it to the first waiting request; a resource that fails validation is
\* destroyed and replaced.  validate settles without waiting for any timer
\* or input, so the test and the hand-over are one step.
dispense(p, cs, cl) ==
  LET available == p.resource # 0 /\ ~p.loan
      allocable == (IF available THEN 1 ELSE 0) + (IF p.creating THEN 1 ELSE 0)
      spare == PoolMax - ((IF p.resource # 0 THEN 1 ELSE 0)
                          + (IF p.creating THEN 1 ELSE 0))
      shortfall == Len(p.waiting) - allocable
  IN IF p.waiting = << >>
       THEN [pool |-> p, conns |-> cs, calls |-> cl]
     ELSE IF spare >= 1 /\ shortfall >= 1
       THEN [pool |-> [p EXCEPT !.creating = TRUE],
             conns |-> cs,
             calls |-> [c \in DOMAIN cl |->
                          IF c \in Range(p.waiting)
                            THEN [cl[c] EXCEPT !.runs = @ + 1] ELSE cl[c]]]
     ELSE IF available /\ validate(cs[p.resource])
       THEN [pool |-> [p EXCEPT !.loan = TRUE, !.waiting = Tail(@)],
             conns |-> cs,
             calls |-> [cl EXCEPT ![Head(p.waiting)].pc = "holding",
                                  ![Head(p.waiting)].conn = p.resource,
                                  ![Head(p.waiting)].stale = cs[p.resource].stale]]
     ELSE IF available
       THEN [pool |-> [p EXCEPT !.resource = 0, !.destroying = @ + 1,
                                !.creating = TRUE],
             conns |-> destroy(cs, p.resource),
             calls |-> [c \in DOMAIN cl |->
                          IF c \in Range(p.waiting)
                            THEN [cl[c] EXCEPT !.runs = @ + 1] ELSE cl[c]]]
     ELSE [pool |-> p, conns |-> cs, calls |-> cl]

\* getOrCreatePool without the lookup in the map: a new pool for every call
getOrCreatePoolFresh(serverName) ==
  LET free == {k \in 1..Len(poolObjs) :
                 /\ poolObjs[k] = ClearedPool
                 /\ \A s \in PoolNames : pools[s] # k
                 /\ \A j \in Closers, s \in PoolNames : closes[j].pool[s] # k}
      id == place(poolObjs, free)
  IN [id |-> id, objs |-> put(poolObjs, id, createPool(serverName))]

\* the pool getOrCreatePool returns for a name: the one in the map, or a new
\* one that it puts there
getOrCreatePool(serverName) ==
  LET free == {k \in 1..Len(poolObjs) :
                 /\ poolObjs[k] = ClearedPool
                 /\ \A s \in PoolNames : pools[s] # k
                 /\ \A j \in Closers, s \in PoolNames : closes[j].pool[s] # k}
      id == place(poolObjs, free)
  IN IF pools[serverName] # 0
       THEN [id |-> pools[serverName], objs |-> poolObjs]
       ELSE [id |-> id, objs |-> put(poolObjs, id, createPool(serverName))]

\* closePool after pool.drain() was called, as far as it gets in this turn:
\* drain resolves once no request waits and no resource is on loan, and
\* stops the evictor; clear waits for a pending creation, destroys the
\* available resource and waits for the pending destroys; then
\* pools.delete(serverName)
closeAt(at, p) ==
  IF at \in {"none", "done"} THEN at
  ELSE IF at = "drain" /\ ~(p.waiting = << >> /\ ~p.loan) THEN "drain"
  ELSE IF at \in {"drain", "clear"} /\ p.creating THEN "clear"
  ELSE IF p.resource # 0 \/ p.destroying > 0 THEN "delete"
  ELSE "done"

\* the positions the close invocations reach on the pool objs[pid]
closesAt(objs, cl, pid) ==
  {closeAt(cl[ks[1]].at[ks[2]], objs[pid]) :
     ks \in {x \in Closers \X PoolNames : cl[x[1]].pool[x[2]] = pid}}

\* closePool and closeAllPools return; the signal handler then calls
\* process.exit(0)
closeReturn(cl) ==
  [k \in Closers |->
     IF /\ cl[k].kind = "close"
        /\ \A s \in PoolNames : cl[k].at[s] = "done"
       THEN IdleClose ELSE cl[k]]

\* every continuation of the close invocations that can run, run
turn(ps, objs, cs, cl) ==
  [pools |-> [s \in PoolNames |->
                IF ps[s] # 0 /\ "done" \in closesAt(objs, cl, ps[s]) THEN 0
                ELSE ps[s]],
   poolObjs |-> [pid \in 1..Len(objs) |->
                   IF "done" \in closesAt(objs, cl, pid) THEN ClearedPool
                   ELSE IF "delete" \in closesAt(objs, cl, pid)
                     THEN [objs[pid] EXCEPT
                             !.evictor = FALSE, !.resource = 0,
                             !.destroying = IF objs[pid].resource # 0
                                              THEN @ + 1 ELSE @]
                   ELSE IF "clear" \in closesAt(objs, cl, pid)
                     THEN [objs[pid] EXCEPT !.evictor = FALSE]
                   ELSE objs[pid]],
   conns |-> [id \in 1..Len(cs) |->
                IF \E pid \in 1..Len(objs) :
                     /\ objs[pid].resource = id
                     /\ closesAt(objs, cl, pid) \cap {"delete", "done"} # {}
                  THEN ClosedClient ELSE cs[id]],
   closes |-> closeReturn(
                [k \in Closers |->
                   [cl[k] EXCEPT
                      !.at = [s \in PoolNames |->
                                IF cl[k].pool[s] = 0 THEN cl[k].at[s]
                                ELSE closeAt(cl[k].at[s], objs[cl[k].pool[s]])],
                      !.pool = [s \in PoolNames |->
                                  IF /\ cl[k].pool[s] # 0
                                     /\ closeAt(cl[k].at[s],
                                                objs[cl[k].pool[s]]) = "done"
                                    THEN 0 ELSE cl[k].pool[s]]]]),
   exited |-> \E k \in Closers :
                /\ cl[k].kind = "shutdown"
                /\ \A s \in PoolNames :
                     \/ cl[k].at[s] = "done"
                     \/ /\ cl[k].pool[s] # 0
                        /\ closeAt(cl[k].at[s], objs[cl[k].pool[s]]) = "done"]

Commit(st) ==
  /\ pools' = st.pools
  /\ poolObjs' = st.poolObjs
  /\ conns' = st.conns
  /\ closes' = st.closes
  /\ exited' = st.exited

\* callMcpTool up to its await of pool.acquire(): getOrCreatePool, then
\* acquire, which rejects on a draining pool and else queues the request
callMcpTool(c, n) ==
  /\ ~exited
  /\ calls[c].pc = "idle"
  /\ \A d \in Callers : d < c => calls[d].pc # "idle"
  /\ started.calls < MaxCalls
  /\ started' = [started EXCEPT !.calls = @ + 1]
  /\ \E g \in {getOrCreatePool(n)} :
       LET p == g.objs[g.id]
           call == [pc |-> "waiting", name |-> n, pool |-> g.id, conn |-> 0,
                    stale |-> FALSE, expect |-> p.resource,
                    fresh |-> (p.resource = 0 /\ ~p.creating),
                    runs |-> 0, failed |-> 0]
       IN /\ pools' = [pools EXCEPT ![n] = g.id]
          /\ IF p.draining
               THEN /\ poolObjs' = g.objs
                    /\ UNCHANGED <<conns, calls>>
               ELSE \E r \in {dispense([p EXCEPT !.waiting = Append(@, c)],
                                       conns, [calls EXCEPT ![c] = call])} :
                      /\ poolObjs' = [g.objs EXCEPT ![g.id] = r.pool]
                      /\ conns' = r.conns
                      /\ calls' = r.calls
  /\ UNCHANGED <<closes, exited, events, vars, pureVars>>

CallTool == \E c \in Callers, n \in PoolNames : callMcpTool(c, n)

\* the factory's promise resolves: the connection is open
CreateDone ==
  /\ ~exited
  /\ \E pid \in 1..Len(poolObjs) :
       /\ poolObjs[pid].creating
       /\ \E id \in {place(conns, {k \in 1..Len(conns) : ~conns[k].open})} :
          \E r \in {dispense([poolObjs[pid] EXCEPT !.creating = FALSE,
                                                  !.resource = id],
                             put(conns, id, PooledClient(poolObjs[pid].name)),
                             [c \in Callers |->
                                IF c \in Range(poolObjs[pid].waiting)
                                     /\ calls[c].expect = 0
                                  THEN [calls[c] EXCEPT !.expect = id]
                                  ELSE calls[c]])} :
            /\ calls' = r.calls
            /\ Commit(turn(pools, [poolObjs EXCEPT ![pid] = r.pool], r.conns,
                           closes))
  /\ UNCHANGED <<events, started, vars, pureVars>>

\* the factory's promise rejects (transport refused, connect failed): the
\* pool emits factoryCreateError and dispenses again
CreateFail ==
  /\ ~exited
  /\ events < MaxEvents
  /\ \E pid \in 1..Len(poolObjs) :
       /\ poolObjs[pid].creating
       /\ \E r \in {dispense([poolObjs[pid] EXCEPT !.creating = FALSE],
                             conns,
                             [c \in Callers |->
                                IF c \in Range(poolObjs[pid].waiting)
                                  THEN [calls[c] EXCEPT !.failed = @ + 1]
                                  ELSE calls[c]])} :
            /\ calls' = r.calls
            /\ Commit(turn(pools, [poolObjs EXCEPT ![pid] = r.pool], r.conns,
                           closes))
  /\ events' = events + 1
  /\ UNCHANGED <<started, vars, pureVars>>

\* callTool settles and the finally block releases the resource
Release ==
  /\ ~exited
  /\ \E c \in Callers :
       /\ calls[c].pc = "holding"
       /\ \E r \in {dispense([poolObjs[calls[c].pool] EXCEPT !.loan = FALSE],
                             conns, [calls EXCEPT ![c] = IdleCall])} :
            /\ calls' = r.calls
            /\ Commit(turn(pools, [poolObjs EXCEPT ![calls[c].pool] = r.pool],
                           r.conns, closes))
  /\ UNCHANGED <<events, started, vars, pureVars>>

\* the service closes the connection or the transport fails: the handles
\* stay in the PooledClient
ConnectionLost ==
  /\ ~exited
  /\ events < MaxEvents
  /\ \E id \in 1..Len(conns) :
       /\ conns[id].open
       /\ ~conns[id].stale
       /\ conns' = [conns EXCEPT ![id].stale = TRUE]
  /\ events' = events + 1
  /\ UNCHANGED <<pools, poolObjs, calls, closes, exited, started, vars, pureVars>>

\* acquireTimeoutMillis elapses for the oldest waiting request
AcquireTimeout ==
  /\ ~exited
  /\ events < MaxEvents
  /\ \E pid \in 1..Len(poolObjs) :
       /\ poolObjs[pid].waiting # << >>
       /\ calls' = [calls EXCEPT ![Head(poolObjs[pid].waiting)] = IdleCall]
       /\ Commit(turn(pools, [poolObjs EXCEPT ![pid].waiting = Tail(@)], conns,
                      closes))
  /\ events' = events + 1
  /\ UNCHANGED <<started, vars, pureVars>>

\* the evictor finds the resource idle for longer than idleTimeoutMillis
Evict ==
  /\ ~exited
  /\ events < MaxEvents
  /\ \E pid \in 1..Len(poolObjs) :
       /\ poolObjs[pid].evictor
       /\ poolObjs[pid].resource # 0
       /\ ~poolObjs[pid].loan
       /\ conns' = destroy(conns, poolObjs[pid].resource)
       /\ poolObjs' = [poolObjs EXCEPT ![pid].resource = 0,
                                       ![pid].destroying = @ + 1]
  /\ events' = events + 1
  /\ UNCHANGED <<pools, calls, closes, exited, started, vars, pureVars>>

\* the promise of a destroy callback settles: transport.close() is over
DestroyDone ==
  /\ ~exited
  /\ \E pid \in 1..Len(poolObjs) :
       /\ poolObjs[pid].destroying > 0
       /\ Commit(turn(pools, [poolObjs EXCEPT ![pid].destroying = @ - 1], conns,
                      closes))
  /\ UNCHANGED <<calls, events, started, vars, pureVars>>

CloseKinds == {"closePool", "closeAllPools", "shutdown"}

\* the keys closePool is called for: the one name, or Array.from(pools.keys())
closeTargets(kind, n) ==
  {s \in PoolNames : pools[s] # 0 /\ (kind = "closePool" => s = n)}

\* closePool up to its await of pool.drain(), for one name or, in
\* closeAllPools and the signal handler, for every key of the map
closeStart(k, kind, n) ==
  /\ ~exited
  /\ closes[k].kind = "none"
  /\ \A j \in Closers : j < k => closes[j].kind # "none"
  /\ started.closes < MaxCloses
  /\ started' = [started EXCEPT !.closes = @ + 1]
  /\ kind # "shutdown" => closeTargets(kind, n) # {}
  /\ Commit(turn(pools,
                 [pid \in 1..Len(poolObjs) |->
                    IF \E s \in closeTargets(kind, n) : pools[s] = pid
                      THEN [poolObjs[pid] EXCEPT !.draining = TRUE]
                      ELSE poolObjs[pid]],
                 conns,
                 [closes EXCEPT ![k] =
                    [kind |-> IF kind = "shutdown" THEN "shutdown" ELSE "close",
                     at |-> [s \in PoolNames |->
                               IF s \in closeTargets(kind, n) THEN "drain"
                               ELSE "done"],
                     pool |-> [s \in PoolNames |->
                                 IF s \in closeTargets(kind, n) THEN pools[s]
                                 ELSE 0]]]))
  /\ UNCHANGED <<calls, events, vars, pureVars>>

CloseStart == \E k \in Closers, kind \in CloseKinds, n \in PoolNames :
                closeStart(k, kind, n)

\* the sync command has not run
SyncIdle ==
  /\ upstream = [s \in Servers |-> ListA]
  /\ fs = EmptyFs
  /\ stable = 0
  /\ lastGen = generated(fs)
  /\ RunIdle
  /\ env = [tokens |-> {}, CI |-> FALSE]
  /\ faults = 0
  /\ changes = 0

InitPool ==
  /\ SyncIdle
  /\ PoolIdle
  /\ PureIdle

NextPool ==
  \/ CallTool
  \/ CreateDone
  \/ CreateFail
  \/ Release
  \/ ConnectionLost
  \/ AcquireTimeout
  \/ Evict
  \/ DestroyDone
  \/ CloseStart

SpecPool == InitPool /\ [][NextPool]_poolVars

(***************************************************************************)
(* Fingerprint of a snapshot and of a changed copy of it                   *)
(***************************************************************************)
\* an input schema with a property named timestamp
SchemaT ==
  << <<"type", "object">>,
     <<"properties", << <<"id", "string">>, <<"timestamp", "string">> >> >> >>

GetXAt == [name |-> <<"getX">>, description |-> "d1", inputSchema |-> SchemaT]

HashTools == {GetX, GetXReq, GetXAt, ListY, CreateZ}

HashSchemas == {SchemaA, SchemaB, SchemaT}

HashNames == {<<"getX">>, <<"listY">>, <<"createZ">>}

\* the tool lists of at most MaxTools tools with distinct names
HashLists ==
  {ts \in UNION {[1..k -> HashTools] : k \in 0..MaxTools} :
     \A j, k \in 1..Len(ts) : j # k => ts[j].name # ts[k].name}

\* snapshots as introspectServer returns them
HashSnapshots ==
  {[serverName |-> "s1", version |-> "latest", retrievedAt |-> t, tools |-> ts] :
     t \in {1, 2}, ts \in HashLists}

Reverse(q) == [k \in 1..Len(q) |-> q[Len(q) + 1 - k]]

\* the same object with the keys of every object in it in another order
reorderKeys(schema) ==
  Reverse([k \in 1..Len(schema) |->
             IF schema[k][1] \in ObjectKeys
               THEN <<schema[k][1], Reverse(schema[k][2])>>
               ELSE schema[k]])

\* an object as a value: its members by key, keys in no order, none dropped
RECURSIVE jsonValue(_)
jsonValue(schema) ==
  {<<schema[k][1],
     IF schema[k][1] \in ObjectKeys THEN jsonValue(schema[k][2])
     ELSE schema[k][2]>> : k \in 1..Len(schema)}

\* the operation set of a snapshot with the input schema of each operation
operations(snap) ==
  {<<snap.tools[k].name, jsonValue(snap.tools[k].inputSchema)>> :
     k \in 1..Len(snap.tools)}

changed(how, b) ==
  /\ input.kind = "hash"
  /\ input.how = "none"
  /\ input' = [input EXCEPT !.how = how, !.b = b]
  /\ UNCHANGED <<output, vars, poolVars>>

ReorderKeys ==
  \E k \in 1..Len(input.a.tools) :
    changed("keys", [input.a EXCEPT
                       !.tools[k].inputSchema = reorderKeys(@)])

PermuteTools ==
  \E j, k \in 1..Len(input.a.tools) :
    /\ j < k
    /\ changed("permute", [input.a EXCEPT !.tools[j] = input.a.tools[k],
                                          !.tools[k] = input.a.tools[j]])

ChangeTime ==
  \E t \in {1, 2} \ {input.a.retrievedAt} :
    changed("time", [input.a EXCEPT !.retrievedAt = t])

ChangeSchema ==
  \E k \in 1..Len(input.a.tools) :
    \E schema \in HashSchemas \ {input.a.tools[k].inputSchema} :
      changed("schema", [input.a EXCEPT !.tools[k].inputSchema = schema])

AddTool ==
  \E t \in HashTools :
    /\ \A k \in 1..Len(input.a.tools) : input.a.tools[k].name # t.name
    /\ changed("add", [input.a EXCEPT !.tools = Append(@, t)])

RemoveTool ==
  \E k \in 1..Len(input.a.tools) :
    changed("remove",
            [input.a EXCEPT
               !.tools = SubSeq(@, 1, k - 1) \o SubSeq(@, k + 1, Len(@))])

RenameTool ==
  \E k \in 1..Len(input.a.tools) :
    \E n \in HashNames :
      /\ \A j \in 1..Len(input.a.tools) : input.a.tools[j].name # n
      /\ changed("rename", [input.a EXCEPT !.tools[k].name = n])

\* fingerprintFromTools applied to the snapshot and to its changed copy
Fingerprint ==
  /\ input.kind = "hash"
  /\ input.how # "none"
  /\ ~output.done
  /\ output' = [done |-> TRUE, a |-> fingerprintFromTools(input.a),
                b |-> fingerprintFromTools(input.b)]
  /\ UNCHANGED <<input, vars, poolVars>>

InitHash ==
  /\ SyncIdle
  /\ PoolIdle
  /\ input \in {[kind |-> "hash", how |-> "none", a |-> snap, b |-> snap] :
                   snap \in HashSnapshots}
  /\ output = [done |-> FALSE]

NextHash ==
  \/ ReorderKeys
  \/ PermuteTools
  \/ ChangeTime
  \/ ChangeSchema
  \/ AddTool
  \/ RemoveTool
  \/ RenameTool
  \/ Fingerprint

SpecHash == InitHash /\ [][NextHash]_pureVars

(***************************************************************************)
(* Diff of two snapshots                                                   *)
(***************************************************************************)
DiffTools == HashTools \cup {GetXDoc}

\* tool lists as two introspections return them, names possibly repeated
DiffLists == UNION {[1..k -> DiffTools] : k \in 0..MaxTools}

DiffSnapshots ==
  {[serverName |-> "s1", version |-> "latest", retrievedAt |-> 1, tools |-> ts] :
     ts \in DiffLists}

\* diffSnapshots applied to the old and the new snapshot
Diff ==
  /\ input.kind = "diff"
  /\ ~output.done
  /\ output' = [done |-> TRUE, diff |-> diffSnapshots(input.old, input.new)]
  /\ UNCHANGED <<input, vars, poolVars>>

InitDiff ==
  /\ SyncIdle
  /\ PoolIdle
  /\ input \in {[kind |-> "diff", old |-> a, new |-> b] :
                   a \in DiffSnapshots, b \in DiffSnapshots}
  /\ output = [done |-> FALSE]

NextDiff == Diff

SpecDiff == InitDiff /\ [][NextDiff]_pureVars

(***************************************************************************)
(* Generated identifiers of the operations of one service                  *)
(***************************************************************************)
\* operation names, character by character: a, A, a-a, a_a, aA, aa, a-1,
\* a1, - and tool
CamelNames ==
  {<<"a">>, <<"A">>, <<"a", "-", "a">>, <<"a", "_", "a">>, <<"a", "A">>,
   <<"a", "a">>, <<"a", "-", "1">>, <<"a", "1">>, <<"-">>,
   <<"t", "o", "o", "l">>}

\* the operation lists of at most MaxTools operations with these names
CamelLists ==
  UNION {[1..k -> {[name |-> n, description |-> "d1", inputSchema |-> SchemaA] :
                     n \in CamelNames}] : k \in 0..MaxTools}

\* generateServerTs applied to a snapshot with the operation list, on an
\* empty output tree
Generate ==
  /\ input.kind = "names"
  /\ ~output.done
  /\ output' = [done |-> TRUE,
                tree |-> generateServerTs(EmptyFs, 1,
                                          introspectServer(1, input.tools, 1),
                                          Len(input.tools), TRUE)]
  /\ UNCHANGED <<input, vars, poolVars>>

InitNames ==
  /\ SyncIdle
  /\ PoolIdle
  /\ input \in {[kind |-> "names", tools |-> ts] : ts \in CamelLists}
  /\ output = [done |-> FALSE]

NextNames == Generate

SpecNames == InitNames /\ [][NextNames]_pureVars

(***************************************************************************)
(* A sync of one service whose operation list changed since its last sync  *)
(***************************************************************************)
\* processServer for service 1, in sync mode and without errors, on the tree
\* that a sync of the old operation list left
Resync ==
  /\ input.kind = "resync"
  /\ ~output.done
  /\ \E r \in {processServer(SyncedFs(input.old, 1), 1, input.new, FALSE,
                              "ok", 2)} :
       output' = [done |-> TRUE, status |-> r.status, tree |-> r.fs]
  /\ UNCHANGED <<input, vars, poolVars>>

InitResync ==
  /\ SyncIdle
  /\ PoolIdle
  /\ input \in {[kind |-> "resync", old |-> a, new |-> b] :
                   a \in HashLists, b \in HashLists}
  /\ output = [done |-> FALSE]

NextResync == Resync

SpecResync == InitResync /\ [][NextResync]_pureVars

(***************************************************************************)
(* The verdict of check mode next to the diff of sync mode, for the same   *)
(* committed snapshot and the same introspection result                    *)
(***************************************************************************)
\* createZ with an empty description instead of none
CreateZEmpty == [name |-> <<"createZ">>, description |-> "", inputSchema |-> SchemaA]

DriftTools == DiffTools \cup {CreateZEmpty}

\* tool lists of at most MaxTools tools with distinct names
DriftLists ==
  {ts \in UNION {[1..k -> DriftTools] : k \in 0..MaxTools} :
     \A j, k \in 1..Len(ts) : j # k => ts[j].name # ts[k].name}

\* processServer in check mode, and the diff processServer takes in sync
\* mode, over the tree a sync of input.old left
Drift ==
  /\ input.kind = "drift"
  /\ ~output.done
  /\ \E tree \in {SyncedFs(input.old, 1)} :
       \E r \in {processServer(tree, 1, input.new, TRUE, "ok", 2)} :
         output' = [done |-> TRUE, changed |-> r.changed,
                    diff |-> diffSnapshots(tree.latestJson[1],
                                           introspectServer(1, input.new, 2))]
  /\ UNCHANGED <<input, vars, poolVars>>

InitDrift ==
  /\ SyncIdle
  /\ PoolIdle
  /\ input \in {[kind |-> "drift", old |-> a, new |-> b] :
                   a \in DriftLists, b \in DriftLists}
  /\ output = [done |-> FALSE]

NextDrift == Drift

SpecDrift == InitDrift /\ [][NextDrift]_pureVars

(***************************************************************************)
(* Connecting to one service: introspectServer with chooseTransport (sync) *)
(* and the pool factory of callMcpTool with chooseTransportRuntime         *)
(* (runtime).  A transport is its kind, the headers of its requests and    *)
(* the token variables handed to its child process; a StdioClientTransport *)
(* spawns its child when the client connects.                              *)
(***************************************************************************)
NoTransport == [kind |-> "none"]

NoOutcome == [status |-> "none"]

\* new Error(...) of the two transport selections for server cfg
policyError(cfg) == [status |-> "error", error |-> "stdio disabled", server |-> cfg.name]

unknownTypeError(cfg) == [status |-> "error", error |-> "unknown transport", server |-> cfg.name]

\* a stdio transport selection that skips the allowStdioExec test
chooseTransportAlways(cfg, allowStdioExec) ==
  IF cfg.type = "http"
    THEN [ok |-> TRUE, transport |-> [kind |-> "http", headers |-> << >>]]
  ELSE IF cfg.type = "stdio"
    THEN [ok |-> TRUE, transport |-> [kind |-> "stdio", tokens |-> {}]]
  ELSE [ok |-> FALSE, error |-> unknownTypeError(cfg)]

chooseTransport(cfg, allowStdioExec) ==
  IF cfg.type = "http"
    THEN [ok |-> TRUE, transport |-> [kind |-> "http", headers |-> << >>]]
  ELSE IF cfg.type = "stdio"
    THEN IF ~allowStdioExec THEN [ok |-> FALSE, error |-> policyError(cfg)]
         ELSE [ok |-> TRUE, transport |-> [kind |-> "stdio", tokens |-> {}]]
  ELSE [ok |-> FALSE, error |-> unknownTypeError(cfg)]

chooseTransportRuntime(cfg, allowStdioExec, e) ==
  LET authResult == resolveAuth(cfg.auth, e)
  IN IF cfg.type = "http"
       THEN [ok |-> TRUE,
             transport |->
               [kind |-> "http",
                headers |-> IF authResult.status = "resolved"
                              THEN << <<"Authorization", authResult.token>> >>
                              ELSE << >>]]
     ELSE IF cfg.type = "stdio"
       THEN IF ~allowStdioExec THEN [ok |-> FALSE, error |-> policyError(cfg)]
            ELSE [ok |-> TRUE,
                  transport |->
                    [kind |-> "stdio",
                     tokens |-> IF authResult.status = "resolved"
                                     /\ cfg.auth.type = "bearer"
                                  THEN {authResult.token} ELSE {}]]
     ELSE [ok |-> FALSE, error |-> unknownTypeError(cfg)]

\* a close whose error reaches the caller
closeTransport(thrown) == thrown

\* safeCloseTransport: close() is called and whatever it throws is ignored
safeCloseTransport(thrown) == NoOutcome

\* server configurations and process environments of the connection
ConnectInputs ==
  {[kind |-> "connect", path |-> path,
    cfg |-> [name |-> "s1", type |-> type, auth |-> auth],
    allowStdioExec |-> allow, env |-> [tokens |-> tokens, CI |-> FALSE]] :
     path \in {"sync", "runtime"}, type \in {"http", "stdio", "other"},
     auth \in {[type |-> "none"], [type |-> "bearer", tokenEnv |-> 2]},
     allow \in BOOLEAN, tokens \in {{}, {2}}}

connecting == input.kind = "connect" /\ ~output.done

\* the try block was left with this outcome: introspectServer goes to its
\* finally block, the pool factory returns or throws
leave(outcome) ==
  IF input.path = "sync"
    THEN [output EXCEPT !.stage = "cleanup", !.outcome = outcome]
    ELSE [output EXCEPT !.stage = "returned", !.outcome = outcome,
                        !.result = outcome, !.done = TRUE]

ChooseTransport ==
  /\ connecting
  /\ output.stage = "initializing"
  /\ \E r \in {IF input.path = "sync"
                  THEN chooseTransport(input.cfg, input.allowStdioExec)
                  ELSE chooseTransportRuntime(input.cfg, input.allowStdioExec,
                                              input.env)} :
       output' = IF r.ok
                   THEN [output EXCEPT !.stage = "connecting",
                                       !.transport = r.transport]
                   ELSE leave(r.error)
  /\ UNCHANGED <<input, vars, poolVars>>

\* client.connect(transport): starts the transport, then the handshake
Connect ==
  /\ connecting
  /\ output.stage = "connecting"
  /\ \E ok \in BOOLEAN :
       \E o \in {[output EXCEPT !.spawned = (output.transport.kind = "stdio")]} :
         output' =
           IF ~ok
             THEN [leave([status |-> "error", error |-> "connect",
                          server |-> input.cfg.name])
                     EXCEPT !.spawned = o.spawned]
           ELSE IF input.path = "sync" THEN [o EXCEPT !.stage = "listing"]
           ELSE [leave([status |-> "connected"]) EXCEPT !.spawned = o.spawned]
  /\ UNCHANGED <<input, vars, poolVars>>

\* client.listTools(): the tools, a connection error, another error, or a
\* thrown value that is no Error
ListTools ==
  /\ connecting
  /\ output.stage = "listing"
  /\ \E r \in {"tools", "connection lost", "list", "unexpected"} :
       output' = leave(IF r = "tools" THEN [status |-> "completed"]
                       ELSE [status |-> "error", error |-> r,
                             server |-> input.cfg.name])
  /\ UNCHANGED <<input, vars, poolVars>>

\* the finally block of introspectServer
Cleanup ==
  /\ connecting
  /\ output.stage = "cleanup"
  /\ \E thrown \in {NoOutcome, [status |-> "error", error |-> "close",
                                 server |-> input.cfg.name]} :
       \E c \in {IF output.transport # NoTransport
                   THEN safeCloseTransport(thrown) ELSE NoOutcome} :
         output' = [output EXCEPT
                      !.stage = "returned",
                      !.closed = output.transport # NoTransport,
                      !.closeThrew = (output.transport # NoTransport
                                        /\ thrown # NoOutcome),
                      !.result = IF c # NoOutcome THEN c ELSE output.outcome,
                      !.done = TRUE]
  /\ UNCHANGED <<input, vars, poolVars>>

InitConnect ==
  /\ SyncIdle
  /\ PoolIdle
  /\ input \in ConnectInputs
  /\ output = [done |-> FALSE, stage |-> "initializing",
               transport |-> NoTransport, spawned |-> FALSE, closed |-> FALSE,
               closeThrew |-> FALSE, outcome |-> NoOutcome,
               result |-> NoOutcome]

NextConnect ==
  \/ ChooseTransport
  \/ Connect
  \/ ListTools
  \/ Cleanup

SpecConnect == InitConnect /\ [][NextConnect]_pureVars

(***************************************************************************)
(* The paths of a service in the output tree.  A server name is the        *)
(* sequence of its characters.                                             *)
(***************************************************************************)
Alphanumeric == {"a", "A", "b", "1"}

\* serverName.replace(/[^a-zA-Z0-9]+/g, "-").replace(/^-+|-+$/g, "")
\*   .toLowerCase()
slugifyServerName(serverName) ==
  LET n == Len(serverName)
      alnum(k) == serverName[k] \in Alphanumeric
      \* of a run of other characters the first one becomes the "-"
      kept == {k \in 1..n : alnum(k) \/ k = 1 \/ alnum(k - 1)}
      \* the "-" at the start and the one at the end are trimmed
      inner == {k \in kept :
                  alnum(k) \/ ((\E j \in 1..n : j < k /\ alnum(j))
                                 /\ (\E j \in 1..n : j > k /\ alnum(j)))}
      at(j) == CHOOSE k \in inner : Cardinality({m \in inner : m < k}) = j - 1
  IN [j \in 1..Cardinality(inner) |->
        IF alnum(at(j)) THEN Lower(serverName[at(j)]) ELSE "-"]

\* the directories processServer writes for a server: its snapshots, its
\* reports and its generated wrappers
serverPaths(serverName) ==
  {<<dir, slugifyServerName(serverName)>> :
     dir \in {".snapshots", ".reports", "servers"}}

ServerNames ==
  {<<"a">>, <<"A">>, <<"b">>, <<"a", "b">>, <<"a", "-", "b">>,
   <<"a", ".", "b">>, <<"a", ".", "-", "b">>, <<"a", "1">>, <<".", "a">>,
   <<"a", "/", "b">>, <<"b", "-", "a">>, <<"1">>}

\* processServer for the two servers of a configuration
ServerPaths ==
  /\ input.kind = "servers"
  /\ ~output.done
  /\ output' = [done |-> TRUE,
                paths |-> [k \in 1..2 |-> serverPaths(input.names[k])]]
  /\ UNCHANGED <<input, vars, poolVars>>

InitPaths ==
  /\ SyncIdle
  /\ PoolIdle
  /\ \E n1, n2 \in ServerNames :
       /\ n1 # n2
       /\ input = [kind |-> "servers", names |-> <<n1, n2>>]
  /\ output = [done |-> FALSE]

NextPaths == ServerPaths

SpecPaths == InitPaths /\ [][NextPaths]_pureVars

(***************************************************************************)
(* The runtime that keeps one client per server in clientCache.  A call of *)
(* callMcpTool runs up to its next await in one step.  A connection is     *)
(* named after the call that made it; << >> is no connection.              *)
(***************************************************************************)
IdleCacheCall == [pc |-> "idle", name |-> "none", conn |-> << >>, runs |-> 0]

\* callMcpTool is called: await loadConfigForRuntime()
CacheCall(c, n) ==
  /\ input.kind = "cache"
  /\ output.calls[c].pc = "idle"
  /\ output.calls[c].runs < MaxCalls
  /\ output' = [output EXCEPT !.calls[c].pc = "loading", !.calls[c].name = n,
                               !.calls[c].conn = << >>]
  /\ UNCHANGED <<input, vars, poolVars>>

\* the configuration is there: clientCache.get, and on a miss the transport
\* and the client are made and client.connect(transport) is awaited
CacheGet(c) ==
  /\ input.kind = "cache"
  /\ output.calls[c].pc = "loading"
  /\ LET n == output.calls[c].name
         cached == output.clientCache[n]
     IN output' =
          IF cached # << >>
            THEN [output EXCEPT !.calls[c].pc = "calling", !.calls[c].conn = cached]
            ELSE [output EXCEPT !.calls[c].pc = "connecting",
                                !.calls[c].conn = <<c, output.calls[c].runs>>]
  /\ UNCHANGED <<input, vars, poolVars>>

\* client.connect settles: clientCache.set and await callTool, or the error
\* ends the call
CacheConnect(c) ==
  /\ input.kind = "cache"
  /\ output.calls[c].pc = "connecting"
  /\ \E ok \in BOOLEAN :
       LET n == output.calls[c].name
           conn == output.calls[c].conn
       IN output' =
            IF ok
              THEN [output EXCEPT !.calls[c].pc = "calling",
                                  !.connected[n] = @ \cup {conn},
                                  !.clientCache[n] = conn]
              ELSE [output EXCEPT !.calls[c] =
                      [IdleCacheCall EXCEPT !.runs = output.calls[c].runs + 1]]
  /\ UNCHANGED <<input, vars, poolVars>>

\* callTool settles and callMcpTool returns or throws
CacheReturn(c) ==
  /\ input.kind = "cache"
  /\ output.calls[c].pc = "calling"
  /\ output' = [output EXCEPT !.calls[c] =
                  [IdleCacheCall EXCEPT !.runs = output.calls[c].runs + 1]]
  /\ UNCHANGED <<input, vars, poolVars>>

InitCache ==
  /\ SyncIdle
  /\ PoolIdle
  /\ input = [kind |-> "cache"]
  /\ output = [done |-> FALSE,
               clientCache |-> [n \in PoolNames |-> << >>],
               connected |-> [n \in PoolNames |-> {}],
               calls |-> [c \in Callers |-> IdleCacheCall]]

NextCache ==
  \/ \E c \in Callers, n \in PoolNames : CacheCall(c, n)
  \/ \E c \in Callers : CacheGet(c)
  \/ \E c \in Callers : CacheConnect(c)
  \/ \E c \in Callers : CacheReturn(c)

SpecCache == InitCache /\ [][NextCache]_pureVars

(***************************************************************************)
(* Properties                                                              *)
(***************************************************************************)
names(q) == {q[k].serverName : k \in 1..Len(q)}

\* the snapshot a successful attempt of this run stores for server s
freshSnapshot(s) == introspectServer(s, upstream[s], now)

\* latest.json, latest.meta.json and the history hold this run's snapshot of s
snapshotCommitted(s) ==
  /\ fs.latestJson[s] = freshSnapshot(s)
  /\ freshSnapshot(s) \in fs.history[s]
  /\ fs.latestMeta[s] # NoFile
  /\ fs.latestMeta[s].schemaFingerprint = fingerprintFromTools(freshSnapshot(s))

\* one file per operation and the index of s were generated from upstream[s]
artifactsGenerated(s) ==
  /\ \A k \in 1..Len(upstream[s]) : toolFileAt(s, upstream[s], k) \in fs.toolFiles[s]
  /\ fs.indexTs[s] = [exports |-> indexExports(upstream[s])]

\* C1: in a sync run an error thrown while processing one service becomes a
\* failed outcome of that service only: the loop goes on to every later
\* service (every attempted service has exactly one outcome, and the run
\* leaves the loop only after the last one), and every service recorded as
\* successful has its snapshot committed and its artifacts generated.
C1_FailureIsolated ==
  (pc # "idle" /\ ~opts.check) =>
    /\ pc # "loop" => i = Len(selected) + 1
    /\ \A k \in 1..(i - 1) :
         selected[k] \in names(results.successful) \cup names(results.failed)
                           \cup names(results.skipped)
    /\ Len(results.successful) + Len(results.failed) + Len(results.skipped) = i - 1
    /\ \A s \in names(results.successful) :
         snapshotCommitted(s) /\ artifactsGenerated(s)

\* a finished sync run in which a service failed and a later one succeeded
C1_Witness ==
  /\ pc = "done"
  /\ ~opts.check
  /\ \E j, k \in 1..Len(selected) :
       /\ j < k
       /\ selected[j] \in names(results.failed)
       /\ selected[k] \in names(results.successful)
       /\ snapshotCommitted(selected[k])
       /\ artifactsGenerated(selected[k])

\* a sync-mode run that went through the loop and has ended
syncRunDone == pc = "done" /\ ~opts.check /\ selected # << >>

C2_WitnessAllFailed ==
  /\ syncRunDone
  /\ Len(results.failed) = NumServers
  /\ exitCode = 1

\* C3 as stated: the committed snapshot and metadata of a service whose
\* attempt ended failed or skipped, at whatever stage, are those the run
\* started with.
C3_Original ==
  pc # "idle" =>
    \A s \in names(results.failed) \cup names(results.skipped) :
      /\ fs.latestJson[s] = fsAtStart.latestJson[s]
      /\ fs.latestMeta[s] = fsAtStart.latestMeta[s]

\* C4: the confirmation is requested at most once; only after every
\* selected service has an outcome; past the loop of a sync run it has been
\* requested exactly when the run is interactive and a breaking change was
\* queued (detected); the shared outputs are untouched until the answer is
\* affirmative, and finalizeSyncOutput runs only after an affirmative answer
\* when the prompt was shown.
C4_ConfirmOnceAfterLoop ==
  /\ asked <= 1
  /\ asked = 1 =>
       /\ ~opts.check
       /\ i = Len(selected) + 1
       /\ Len(results.successful) + Len(results.failed) + Len(results.skipped)
            = Len(selected)
  /\ (pc \in {"confirm", "finalize", "done"} /\ ~opts.check /\ selected # << >>) =>
       /\ asked = 1 <=> (~opts.yes /\ Len(results.breakingChanges) > 0)
       /\ asked = 1 <=> (~opts.yes /\ detected # {})
  /\ finalized => (asked = 0 \/ answer = "yes")
  /\ (asked = 1 /\ answer # "yes") =>
       /\ ~finalized
       /\ fs.catalog = fsAtStart.catalog
       /\ fs.readme = fsAtStart.readme
       /\ fs.scripts = fsAtStart.scripts

\* an interactive run over every service that prompted, was answered yes
\* and finalised the shared outputs
C4_Witness ==
  /\ pc = "done"
  /\ Len(selected) = NumServers
  /\ asked = 1
  /\ answer = "yes"
  /\ finalized
  /\ fs.catalog # fsAtStart.catalog

\* C5 as stated: when the confirmation is rejected the run exits non-zero
\* and, for every service with a queued breaking change, the committed
\* snapshot, its metadata and the generated artifacts are those the run
\* started with.
C5_Original ==
  (pc = "done" /\ answer = "no") =>
    /\ exitCode # 0
    /\ \A s \in names(results.breakingChanges) :
         /\ fs.latestJson[s] = fsAtStart.latestJson[s]
         /\ fs.latestMeta[s] = fsAtStart.latestMeta[s]
         /\ fs.toolFiles[s] = fsAtStart.toolFiles[s]
         /\ fs.indexTs[s] = fsAtStart.indexTs[s]

\* C6: from its start to its end a check-mode run leaves the whole output
\* tree (snapshots, metadata, history, reports, generated code, catalog,
\* top-level files) as it found it, whatever the outcomes of the services.
C6_CheckReadOnly ==
  opts.check => fs = fsAtStart

\* a finished check run that met a failing service and a drifted one
C6_Witness ==
  /\ pc = "done"
  /\ opts.check
  /\ ~opts.isCI
  /\ Len(results.failed) > 0
  /\ results.anyOutOfSync
  /\ fs = fsAtStart

\* server s was introspected in this run: connected to, and not failed
introspected(s) == s \in connects /\ s \notin names(results.failed)

\* the committed fingerprint of s is absent or differs from the fingerprint
\* of what s exposes now
drifted(s) ==
  \/ fs.latestMeta[s] = NoFile
  \/ fs.latestMeta[s].schemaFingerprint
       # fingerprint([serverName |-> s, version |-> "latest", tools |-> upstream[s]])

skipApplies(k) ==
  /\ resolveAuth(authConfig(selected[k]), env).status = "missing"
  /\ (opts.skipMissingAuth \/ env.CI)

\* what C8 says of the services themselves: exactly the attempted services
\* whose credential is missing while skipping is enabled are skipped, with a
\* reason naming the variable, and no transport or connection is made
skippedUntouched ==
  /\ \A k \in 1..(i - 1) :
       skipApplies(k) <=> selected[k] \in names(results.skipped)
  /\ \A k \in 1..Len(results.skipped) :
       LET e == results.skipped[k]
       IN /\ authConfig(e.serverName).type = "bearer"
          /\ e.reason = <<"Missing auth token", authConfig(e.serverName).tokenEnv>>
          /\ e.serverName \notin transports
          /\ e.serverName \notin connects

namedAsBreaking(s) ==
  \/ \E k \in 1..Len(summary) :
       "server" \in DOMAIN summary[k] /\ summary[k].server = s
  \/ s \in names(results.breakingChanges)

\* C9 as stated: in a --yes sync run every breaking change detected is
\* accepted without a prompt and recorded in the run summary, naming the
\* affected service.
C9_Original ==
  (pc = "done" /\ opts.yes /\ ~opts.check) =>
    /\ asked = 0
    /\ \A s \in detected : namedAsBreaking(s)

\* C10: after a full sync, a further full sync with no upstream change in
\* between leaves the generated artifacts (operation files, indexes, the
\* catalog but for its timestamp) as they were, and a check run after two
\* such syncs reports no service out of sync and, unless its --server
\* filter names no configured service, exits 0.
C10_RepeatStable ==
  /\ (pc = "done" /\ fullSync /\ stable >= 1) => generated(fs) = lastGen
  /\ (pc = "done" /\ opts.check /\ stable = 2) =>
       /\ ~results.anyOutOfSync
       /\ (opts.server = << >> \/ opts.server[1] \in Servers) => exitCode = 0

\* a check run over every service, right after two full syncs, that
\* introspected them all
C10_Witness ==
  /\ pc = "done"
  /\ opts.check
  /\ stable = 2
  /\ exitCode = 0
  /\ connects = Servers
  /\ results.failed = << >>
  /\ generated(fs) = lastGen
  /\ lastGen.catalog # NoFile

(***************************************************************************)
(* Properties of the runtime connection pool                               *)
(***************************************************************************)
active(c) == calls[c].pc \in {"waiting", "holding"}

openConns(n) == {id \in 1..Len(conns) : conns[id].open /\ conns[id].name = n}

\* C11, as stated: two concurrent acquisitions for the same service name,
\* with no connection existing beforehand, make the factory run exactly
\* once, and the second caller receives that same connection after the
\* first released it.
C11_Original ==
  /\ \A c \in Callers :
       active(c) =>
         /\ calls[c].runs = (IF calls[c].fresh THEN 1 ELSE 0)
         /\ calls[c].pc = "holding" => calls[c].conn = calls[c].expect
  /\ \A c, d \in Callers :
       (c # d /\ calls[c].pc = "holding" /\ calls[d].pc = "holding")
         => calls[c].name # calls[d].name

\* C11, amended: for acquisitions of the same service name that overlap,
\* with no connection existing beforehand, the factory runs once and once
\* more for every creation that fails; a caller queued behind another
\* receives the connection the pool held or was creating, and only after
\* the other released it.
C11_SingleFlight ==
  /\ \A c \in Callers :
       active(c) =>
         /\ calls[c].runs = (IF calls[c].fresh THEN 1 ELSE 0) + calls[c].failed
         /\ calls[c].pc = "holding" => calls[c].conn = calls[c].expect
  /\ \A c, d \in Callers :
       (c # d /\ calls[c].pc = "holding" /\ calls[d].pc = "holding")
         => calls[c].name # calls[d].name

\* the first caller holds the one connection created while the second waits
\* for it on the same pool
C11_Witness ==
  \E c, d \in Callers :
    /\ calls[c].pc = "holding" /\ calls[c].fresh /\ calls[c].runs = 1
    /\ calls[d].pc = "waiting" /\ calls[d].pool = calls[c].pool
    /\ calls[d].runs = 0 /\ calls[d].expect = calls[c].conn
    /\ Cardinality(openConns(calls[c].name)) = 1

C13_Original == \A c \in Callers : calls[c].pc = "holding" => ~calls[c].stale

\* C14, as stated: when the process exits after SIGTERM or SIGINT, the
\* shutdown hook of every open connection has been invoked.
C14_Original == exited => \A id \in 1..Len(conns) : ~conns[id].open

(***************************************************************************)
(* Properties of the fingerprint                                           *)
(***************************************************************************)
hashed(hows) == input.kind = "hash" /\ output.done /\ input.how \in hows

\* C15, as stated: the fingerprint of a snapshot is unchanged by reordering
\* the keys of any object in it, by permuting its operation list, and by
\* changing its retrieval-timestamp values.
C15_Original ==
  hashed({"keys", "permute", "time"}) => output.a = output.b

\* C16, as stated: two snapshots whose operation sets or input schemas
\* differ never have equal fingerprints.
C16_Original ==
  (hashed({"schema", "add", "remove", "rename"})
     /\ operations(input.a) # operations(input.b))
    => output.a # output.b

(***************************************************************************)
(* Properties of the diff                                                  *)
(***************************************************************************)
diffed == input.kind = "diff" /\ output.done

\* the records of one kind for one tool name in a change list
records(list, kind, name) ==
  {k \in 1..Len(list) : list[k].kind = kind /\ list[k].toolName = name}

kinds(list) == {list[k].kind : k \in 1..Len(list)}

toolNames(snap) == {snap.tools[k].name : k \in 1..Len(snap.tools)}

\* newSnap is oldSnap and one more operation
extends(oldSnap, newSnap) ==
  /\ Len(newSnap.tools) = Len(oldSnap.tools) + 1
  /\ SubSeq(newSnap.tools, 1, Len(oldSnap.tools)) = oldSnap.tools
  /\ newSnap.tools[Len(newSnap.tools)].name \notin toolNames(oldSnap)

C18_AddRemoveRecords ==
  diffed =>
    /\ \A n \in HashNames :
         /\ Cardinality(records(output.diff.changes, "tool_added", n))
              = (IF n \in toolNames(input.new) \ toolNames(input.old)
                   THEN 1 ELSE 0)
         /\ Cardinality(records(output.diff.changes, "tool_removed", n))
              = (IF n \in toolNames(input.old) \ toolNames(input.new)
                   THEN 1 ELSE 0)
    /\ extends(input.old, input.new) => ~output.diff.breaking
    /\ extends(input.new, input.old) => output.diff.breaking

\* the diff of a list of one operation against the list without it
C18_Witness ==
  /\ diffed
  /\ extends(input.new, input.old)
  /\ input.new.tools # << >>
  /\ output.diff.breaking
  /\ Len(output.diff.changes) = 1

(***************************************************************************)
(* Properties of the generated identifiers                                 *)
(***************************************************************************)
named == input.kind = "names" /\ output.done

Digits == <<"1", "2", "3", "4", "5", "6", "7", "8", "9">>

\* the identifier as written into the files: base, or base__k
identifier(fnName) ==
  IF fnName[2] = 1 THEN fnName[1]
  ELSE fnName[1] \o <<"_", "_", Digits[fnName[2]]>>

\* the identifiers index.ts exports, in order
exported == [k \in 1..Len(output.tree.indexTs[1].exports) |->
               identifier(output.tree.indexTs[1].exports[k])]

\* the operations before the k-th whose name gives the same base identifier
earlier(k) ==
  {j \in 1..(k - 1) :
     toCamelCase(input.tools[j].name) = toCamelCase(input.tools[k].name)}

\* C19: the generated identifiers of an ordered list of operation names are
\* pairwise distinct; the first operation producing a base identifier keeps
\* it and each later colliding one gets the suffix __2, __3, ... in list
\* order; every generated identifier is exported from index.ts exactly once.
C19_DistinctIdentifiers ==
  named =>
    /\ Len(exported) = Len(input.tools)
    /\ \A j, k \in 1..Len(exported) : j # k => exported[j] # exported[k]
    /\ \A k \in 1..Len(exported) :
         exported[k] =
           IF earlier(k) = {} THEN toCamelCase(input.tools[k].name)
           ELSE toCamelCase(input.tools[k].name)
                  \o <<"_", "_", Digits[Cardinality(earlier(k)) + 1]>>
    /\ {identifier(f.file) : f \in output.tree.toolFiles[1]}
         = {exported[k] : k \in 1..Len(exported)}

\* a-a and a_a, in this order, give aA and aA__2
C19_Witness ==
  /\ named
  /\ Len(input.tools) = 2
  /\ input.tools[1].name = <<"a", "-", "a">>
  /\ input.tools[2].name = <<"a", "_", "a">>
  /\ exported = << <<"a", "A">>, <<"a", "A", "_", "_", "2">> >>

(***************************************************************************)
(* Properties of the generated directory                                   *)
(***************************************************************************)
\* the generated directory of service s as generateServerTs writes it for
\* a snapshot into an empty tree
generatedFrom(s, snap) ==
  LET tree == generateServerTs(EmptyFs, s, snap, Len(snap.tools), TRUE)
  IN [toolFiles |-> tree.toolFiles[s], indexTs |-> tree.indexTs[s]]

\* C20, as stated: after a successful sync of a service its generated
\* directory holds exactly the files generated from its last committed
\* snapshot, and no file of an operation absent from that snapshot.
C20_Original ==
  (input.kind = "resync" /\ output.done /\ output.status = "success") =>
    [toolFiles |-> output.tree.toolFiles[1], indexTs |-> output.tree.indexTs[1]]
      = generatedFrom(1, output.tree.latestJson[1])

(***************************************************************************)
(* Properties of the catalog                                               *)
(***************************************************************************)
\* service s has generated artifacts in the output tree
hasArtifacts(s) == fs.indexTs[s] # NoFile \/ fs.toolFiles[s] # {}

\* the catalog lists service s with every operation of its committed snapshot
catalogued(s) ==
  /\ fs.catalog # NoFile
  /\ fs.latestJson[s] # NoFile
  /\ \E k \in 1..Len(fs.catalog.servers) :
       /\ fs.catalog.servers[k].serverName = s
       /\ {fs.catalog.servers[k].tools[j].name :
             j \in 1..Len(fs.catalog.servers[k].tools)}
            = {fs.latestJson[s].tools[j].name :
                 j \in 1..Len(fs.latestJson[s].tools)}

\* C21, as stated: after every sync-mode run, also one restricted with
\* --server or one in which services failed or were skipped, the catalog
\* lists every service that has generated artifacts in the output tree,
\* each with every operation of its latest committed snapshot.
C21_Original ==
  (syncRunDone /\ finalized /\ caught = None) =>
    \A s \in Servers : hasArtifacts(s) => catalogued(s)

(***************************************************************************)
(* Properties of the connection to a service                               *)
(***************************************************************************)
\* C22: once an introspection has created a transport handle it is closed
\* on every terminal path (completion, connect failure, listing failure,
\* unexpected error), and an error thrown by the close never replaces the
\* introspection's own result or error.
C22_TransportClosed ==
  (input.kind = "connect" /\ input.path = "sync") =>
    /\ output.done =>
         /\ output.transport # NoTransport => output.closed
         /\ output.result = output.outcome
    /\ output.closed => output.done

\* a listing that failed, then a close that threw: the listing error stays
C22_Witness ==
  /\ input.kind = "connect"
  /\ input.path = "sync"
  /\ output.done
  /\ output.closed
  /\ output.closeThrew
  /\ output.result.status = "error"
  /\ output.result.error = "connection lost"

\* C23: for a stdio service with allowStdioExec false the transport
\* selection fails with an error naming the service before any child
\* process is spawned, in the sync path and in the runtime path.
C23_StdioRefused ==
  (input.kind = "connect" /\ input.cfg.type = "stdio" /\ ~input.allowStdioExec) =>
    /\ ~output.spawned
    /\ output.transport = NoTransport
    /\ output.stage # "initializing" =>
         /\ output.outcome.status = "error"
         /\ output.outcome.error = "stdio disabled"
         /\ output.outcome.server = input.cfg.name

\* a runtime connection to a stdio service refused by the policy
C23_Witness ==
  /\ input.kind = "connect"
  /\ input.path = "runtime"
  /\ input.cfg.type = "stdio"
  /\ ~input.allowStdioExec
  /\ output.done
  /\ output.result = policyError(input.cfg)
  /\ ~output.spawned

\* C24, as stated: the transport of an http service carries a bearer
\* Authorization header with the token if and only if the credential
\* resolved, in sync introspection as in runtime calls; a credential that
\* resolved to missing is never transmitted.
C24_Original ==
  (input.kind = "connect" /\ input.cfg.type = "http"
     /\ output.transport # NoTransport) =>
    LET authResult == resolveAuth(input.cfg.auth, input.env)
    IN IF authResult.status = "resolved"
         THEN output.transport.headers
                = << <<"Authorization", authResult.token>> >>
         ELSE output.transport.headers = << >>

(***************************************************************************)
(* Properties of the output paths                                          *)
(***************************************************************************)
\* C25, as stated: two configured services with distinct names own disjoint
\* snapshot, report and generated-artifact paths.
C25_Original ==
  (input.kind = "servers" /\ output.done) =>
    output.paths[1] \cap output.paths[2] = {}

(***************************************************************************)
(* Properties of the snapshot store                                        *)
(***************************************************************************)
\* the metadata of s carries the fingerprint of exactly the latest snapshot
metaOfLatest(s) ==
  /\ fs.latestMeta[s] # NoFile
  /\ fs.latestMeta[s].schemaFingerprint
       = fingerprint([serverName |-> fs.latestJson[s].serverName,
                      version |-> fs.latestJson[s].version,
                      tools |-> fs.latestJson[s].tools])

\* C26, as stated: the snapshot commit is atomic: at every point, also
\* after a write failure in the middle of a commit, the latest metadata of
\* a service carries the fingerprint of exactly its latest snapshot, never
\* a new snapshot paired with old metadata.
C26_Original ==
  \A s \in Servers : fs.latestJson[s] # NoFile => metaOfLatest(s)

\* the paths of the files of the output tree: a historical copy and a
\* report are named after the time they were written at
files(tree) ==
  [latestJson |-> {s \in Servers : tree.latestJson[s] # NoFile},
   latestMeta |-> {s \in Servers : tree.latestMeta[s] # NoFile},
   history |-> [s \in Servers |-> {h.retrievedAt : h \in tree.history[s]}],
   reports |-> [s \in Servers |-> {r.at : r \in tree.reports[s]}],
   toolFiles |-> [s \in Servers |-> {f.file : f \in tree.toolFiles[s]}],
   indexTs |-> {s \in Servers : tree.indexTs[s] # NoFile},
   catalog |-> tree.catalog # NoFile,
   readme |-> tree.readme,
   scripts |-> tree.scripts]

\* C27, as stated: a sync of every service that follows such a sync with no
\* upstream change in between leaves the set of files of the output tree
\* unchanged: it adds no file and removes none.
C27_Original ==
  (pc = "done" /\ fullSync /\ stable >= 1) => files(fs) = files(fsAtStart)

(***************************************************************************)
(* Properties of check mode                                                *)
(***************************************************************************)
\* a check run over selected services ended saying that all servers are up
\* to date, with exit code 0
reportedUpToDate ==
  /\ pc = "done"
  /\ opts.check
  /\ selected # << >>
  /\ summary = << [part |-> "Up to date"] >>
  /\ exitCode = 0

\* C28, as stated: a check run reports that all servers are up to date and
\* exits 0 only if every selected service was introspected and its
\* fingerprint matched the committed one; a service whose introspection
\* failed or that was skipped is never counted as in sync.
C28_Original ==
  reportedUpToDate =>
    \A s \in Range(selected) : introspected(s) /\ ~drifted(s)

\* C29, as stated: for a service with a committed snapshot, check mode
\* reports drift for a fresh introspection result if and only if the diff
\* sync mode takes of the committed snapshot against that same result is
\* not empty.
C29_Original ==
  (input.kind = "drift" /\ output.done) =>
    (output.changed <=> output.diff.changes # << >>)

(***************************************************************************)
(* Properties of the cache-based runtime                                   *)
(***************************************************************************)
\* C30, as stated: concurrent calls of callMcpTool for the same server not
\* yet in clientCache make at most one client connection for it, and every
\* connection that was made stays the one clientCache holds for the server.
C30_Original ==
  input.kind = "cache" =>
    \A n \in PoolNames : output.connected[n] \subseteq {output.clientCache[n]}

====
